---- MODULE Spec2Model ----
(***************************************************************************)
(* Point-region quadtree of qtree/quad_tree.py: Rectangle predicates,      *)
(* QuadTree.InsertPoint with _subdivide, and QuadTree.QueryRegion.         *)
(*                                                                         *)
(* Python objects are modelled with their identity: every QuadTree node is *)
(* an entry of `nodes` (its id is the path of quadrants from the root),    *)
(* and every list (a node's `points`, the default value of the parameter   *)
(* `found`, the lists QueryRegion allocates) is a cell of `heap`.          *)
(*                                                                         *)
(* Coordinates are floats in the source.  All coordinates of the model are *)
(* multiples of 1/Scale, stored as integers in units of 1/Scale; halving a *)
(* half-extent of the tree is then exact, as it is in binary floating      *)
(* point (HalvingExact checks it).                                         *)
(***************************************************************************)
EXTENDS Integers, Sequences, FiniteSets

VARIABLES nodes, heap, inserted, prevResult, lastResult, last

vars == <<nodes, heap, inserted, prevResult, lastResult, last>>

(* Bound of the model: number of InsertPoint calls made on the root. *)
MaxInserts == 3

(* Bound of the model: the interpreter's recursion limit, in frames of    *)
(* InsertPoint (1000 in CPython); a call that would exceed it raises      *)
(* RecursionError.                                                         *)
RecursionLimit == 6

(* One source unit is Scale model units; deep enough for MaxInserts splits. *)
Scale == 2^(MaxInserts + 1)

(* Half-extent of the root boundary, Rectangle(x=0, y=0, w=10, h=10). *)
RootHalf == 10

(* Capacities the root is constructed with. *)
Capacities == {1, 2}

(* ---------------------------------------------------------------- Point *)
Point(x, y) == [x |-> x, y |-> y]

(* ------------------------------------------------------------ Rectangle *)
Rectangle(x, y, w, h) == [x |-> x, y |-> y, w |-> w, h |-> h]

(* Mutant: the comparisons are not strict, edges belong to the rectangle. *)
ContainsPoint_inclusive(self, pt) ==
    /\ self.x - self.w <= pt.x
    /\ pt.x <= self.x + self.w
    /\ self.y - self.h <= pt.y
    /\ pt.y <= self.y + self.h

ContainsPoint(self, pt) ==
    /\ self.x - self.w < pt.x
    /\ pt.x < self.x + self.w
    /\ self.y - self.h < pt.y
    /\ pt.y < self.y + self.h

(* Mutant: no subtree is ever pruned. *)
IntersectsRegion_always(self, region) == TRUE

(* Mutant: the region's left edge is compared with the wrong edge of self. *)
IntersectsRegion_wrongEdge(self, region) ==
    ~ \/ region.x - region.w > self.x - self.w
      \/ region.x + region.w < self.x - self.w
      \/ region.y - region.h > self.y + self.h
      \/ region.y + region.h < self.y - self.h

IntersectsRegion(self, region) ==
    ~ \/ region.x - region.w > self.x + self.w
      \/ region.x + region.w < self.x - self.w
      \/ region.y - region.h > self.y + self.h
      \/ region.y + region.h < self.y - self.h

(* ------------------------------------------------------------- identity *)
(* Node ids: the root is <<>>, the children of n are Append(n, 1..4).      *)
Root == <<>>

(* Value of a child attribute that _subdivide has not set yet. *)
NoNode == <<0>>

(* List ids. *)
PointsList(n) == [kind |-> "points", node |-> n, call |-> "init"]

(* The list object that is the default value of QueryRegion's `found`. *)
DefaultFound == [kind |-> "default", node |-> Root, call |-> "def"]

FoundList(n, c) == [kind |-> "found", node |-> n, call |-> c]

(* f extended (or overwritten) at key k with value v. *)
Put(f, k, v) == [z \in DOMAIN f \cup {k} |-> IF z = k THEN v ELSE f[z]]

(* The lists of the tree. *)
TreeHeap(h) == [id \in {k \in DOMAIN h : k.kind = "points"} |-> h[id]]

(* ------------------------------------------------------------- QuadTree *)
(* QuadTree.__init__: the node record; its points list is a new empty list. *)
QuadTree(self, boundary, capacity) ==
    [boundary  |-> boundary,
     capacity  |-> capacity,
     points    |-> PointsList(self),
     divided   |-> FALSE,
     northeast |-> NoNode,
     northwest |-> NoNode,
     southeast |-> NoNode,
     southwest |-> NoNode]

(* A new node created in state s: the node and its empty points list. *)
NewQuadTree(s, self, boundary, capacity) ==
    [s EXCEPT !.nodes = Put(@, self, QuadTree(self, boundary, capacity)),
              !.heap  = Put(@, PointsList(self), <<>>)]

(* Mutant: the half-extents of the children are not halved. *)
Half_none(v) == v

(* w/2 and h/2 of _subdivide. *)
Half(v) == v \div 2

_subdivide(s, self) ==
    LET x == s.nodes[self].boundary.x
        y == s.nodes[self].boundary.y
        w == s.nodes[self].boundary.w
        h == s.nodes[self].boundary.h
        cap == s.nodes[self].capacity
        ne == Rectangle(x + Half(w), y + Half(h), Half(w), Half(h))
        nw == Rectangle(x - Half(w), y + Half(h), Half(w), Half(h))
        se == Rectangle(x + Half(w), y - Half(h), Half(w), Half(h))
        sw == Rectangle(x - Half(w), y - Half(h), Half(w), Half(h))
        s1 == NewQuadTree(s, Append(self, 1), ne, cap)
        s2 == NewQuadTree(s1, Append(self, 2), nw, cap)
        s3 == NewQuadTree(s2, Append(self, 3), se, cap)
        s4 == NewQuadTree(s3, Append(self, 4), sw, cap)
    IN  [s4 EXCEPT !.nodes[self].northeast = Append(self, 1),
                   !.nodes[self].northwest = Append(self, 2),
                   !.nodes[self].southeast = Append(self, 3),
                   !.nodes[self].southwest = Append(self, 4),
                   !.nodes[self].divided = TRUE,
                   !.split = @ \cup {self}]

(* Mutant: a node takes one point more than its capacity. *)
HasRoom_offByOne(s, self) == Len(s.heap[s.nodes[self].points]) <= s.nodes[self].capacity

(* Mutant: a node takes one point less than its capacity. *)
HasRoom_offByOneLow(s, self) ==
    Len(s.heap[s.nodes[self].points]) < s.nodes[self].capacity - 1

(* len(self.points) < self.capacity *)
HasRoom(s, self) == Len(s.heap[s.nodes[self].points]) < s.nodes[self].capacity

(* Mutant: a point equal to one the node already holds is not appended. *)
StorePoint_dedup(s, self, point) ==
    IF \E i \in DOMAIN s.heap[s.nodes[self].points] :
           s.heap[s.nodes[self].points][i] = point
    THEN s
    ELSE [s EXCEPT !.heap[s.nodes[self].points] = Append(@, point),
                   !.appended = @ \cup {self}]

(* Mutant: the point is put in front of the list. *)
StorePoint_prepend(s, self, point) ==
    [s EXCEPT !.heap[s.nodes[self].points] = <<point>> \o @,
              !.appended = @ \cup {self}]

(* self.points.append(point) *)
StorePoint(s, self, point) ==
    [s EXCEPT !.heap[s.nodes[self].points] = Append(@, point),
              !.appended = @ \cup {self}]

(* Mutant: the guard on self.divided is missing. *)
EnsureDivided_always(s, self) == _subdivide(s, self)

(* if not self.divided: self._subdivide() *)
EnsureDivided(s, self) == IF ~s.nodes[self].divided THEN _subdivide(s, self) ELSE s

(* The state s carries, besides nodes and heap, the trace of one top-level *)
(* call: calls (nodes InsertPoint ran on), accepted (nodes whose boundary  *)
(* contained the point), appended (nodes that stored it), split (nodes     *)
(* _subdivide ran on) and error (RecursionError was raised: the exception  *)
(* propagates, so no later call of the same top-level call is made).       *)
RECURSIVE InsertPoint(_, _, _)
InsertPoint(s, self, point) ==
    LET s0 == [s EXCEPT !.calls = @ \cup {self}]
    IN  IF s.error
        THEN s
        ELSE IF Len(self) >= RecursionLimit
        THEN [s EXCEPT !.error = TRUE]
        ELSE IF ~ContainsPoint(s.nodes[self].boundary, point)
        THEN s0
        ELSE LET sa == [s0 EXCEPT !.accepted = @ \cup {self}]
             IN  IF HasRoom(sa, self)
                 THEN StorePoint(sa, self, point)
                 ELSE LET s1 == EnsureDivided(sa, self)
                          s2 == InsertPoint(s1, s1.nodes[self].northeast, point)
                          s3 == InsertPoint(s2, s2.nodes[self].northwest, point)
                          s4 == InsertPoint(s3, s3.nodes[self].southeast, point)
                      IN  InsertPoint(s4, s4.nodes[self].southwest, point)

(* ---------------------------------------------------------- QueryRegion *)
(* `if not found: found = []`: an empty list is falsy, so the parameter is *)
(* rebound to a newly allocated list; a non-empty one is kept.             *)
(* Mutant: the list passed in is used as it is, also when it is empty. *)
NewFound_shared(s, self, found) == [heap |-> s.heap, found |-> found]

NewFound(s, self, found) ==
    IF s.heap[found] = <<>>
    THEN [heap  |-> Put(s.heap, FoundList(self, "last"), <<>>),
          found |-> FoundList(self, "last")]
    ELSE [heap |-> s.heap, found |-> found]

(* Mutant: every point of the node is appended, in the region or not. *)
Collect_all(h, found, points, region) == [h EXCEPT ![found] = @ \o h[points]]

(* Mutant: the matches are appended to self.points instead of found. *)
Collect_intoPoints(h, found, points, region) ==
    [h EXCEPT ![points] = @ \o SelectSeq(h[points], LAMBDA p : ContainsPoint(region, p))]

(* The loop over self.points: found.append(p) for each p in the region. *)
Collect(h, found, points, region) ==
    [h EXCEPT ![found] = @ \o SelectSeq(h[points], LAMBDA p : ContainsPoint(region, p))]

(* s carries nodes, heap, calls (the nodes QueryRegion ran on) and         *)
(* collected (the nodes whose points were tested against the region); the  *)
(* result has the heap after the call and ret, the list that is returned.  *)
(* The value returned by a child's call is dropped by the caller.          *)
RECURSIVE QueryRegion(_, _, _, _)
QueryRegion(s, self, region, found) ==
    LET nf == NewFound(s, self, found)
        s0 == [s EXCEPT !.heap = nf.heap, !.calls = @ \cup {self}, !.ret = nf.found]
        node == s.nodes[self]
    IN  IF ~IntersectsRegion(node.boundary, region)
        THEN s0
        ELSE LET s1 == [s0 EXCEPT !.heap = Collect(@, nf.found, node.points, region),
                                  !.collected = @ \cup {self}]
             IN  IF node.divided
                 THEN LET s2 == QueryRegion(s1, node.northeast, region, nf.found)
                          s3 == QueryRegion(s2, node.northwest, region, nf.found)
                          s4 == QueryRegion(s3, node.southeast, region, nf.found)
                          s5 == QueryRegion(s4, node.southwest, region, nf.found)
                      IN  [s5 EXCEPT !.ret = nf.found]
                 ELSE s1

(* --------------------------------------------------------------- inputs *)
Src(x, y) == Point(x * Scale, y * Scale)

(* Points the client inserts: inside the NE and SW quadrants, on the       *)
(* root's split line, on the NE child's split lines, on the root's edge    *)
(* and outside the root.                                                   *)
Points == {Src(7, 7), Src(-3, -4), Src(0, 3), Src(5, 5), Src(10, 2), Src(12, -1)}

Box(x, y, w, h) == Rectangle(x * Scale, y * Scale, w * Scale, h * Scale)

(* Regions the client queries: a small box around (7,7), a box in the SW   *)
(* quadrant disjoint from it, a box covering the whole root, and a box     *)
(* that does not overlap the root.                                         *)
Regions == {Box(7, 7, 1, 1), Box(-4, -4, 2, 2), Box(0, 0, 20, 20), Box(30, 30, 5, 5)}

(* ---------------------------------------------------------------- state *)
NoResult == [region |-> Rectangle(0, 0, 0, 0), ret |-> DefaultFound, held |-> FALSE]

NoPoint == Point(0, 0)

Idle == [op |-> "none", point |-> NoPoint, region |-> NoResult.region,
         calls |-> {}, accepted |-> {}, appended |-> {}, split |-> {},
         collected |-> {}, contained |-> FALSE, error |-> FALSE, ret |-> DefaultFound, preNodes |-> <<>>,
         preHeap |-> <<>>, preRet |-> <<>>]

EmptyWorld == [nodes |-> <<>>, heap |-> [id \in {DefaultFound} |-> <<>>]]

Init ==
    /\ \E c \in Capacities :
         LET s == NewQuadTree(EmptyWorld, Root,
                              Rectangle(0, 0, RootHalf * Scale, RootHalf * Scale), c)
         IN  nodes = s.nodes /\ heap = s.heap
    /\ inserted = <<>>
    /\ prevResult = NoResult
    /\ lastResult = NoResult
    /\ last = Idle

(* The client calls root.InsertPoint(p). *)
Insert ==
    /\ Len(inserted) < MaxInserts
    /\ ~lastResult.held
    /\ \E p \in Points :
         LET s == InsertPoint([nodes |-> nodes, heap |-> heap, calls |-> {},
                               accepted |-> {}, appended |-> {}, split |-> {},
                               error |-> FALSE],
                              Root, p)
         IN  /\ nodes' = s.nodes
             /\ heap' = s.heap
             /\ inserted' = Append(inserted, p)
             /\ last' = [Idle EXCEPT !.op = "insert", !.point = p,
                                     !.calls = s.calls, !.accepted = s.accepted,
                                     !.appended = s.appended, !.split = s.split,
                                     !.error = s.error,
                                     !.preNodes = nodes, !.preHeap = TreeHeap(heap)]
    /\ UNCHANGED <<prevResult, lastResult>>

(* What the client's references look like one call later: the list it got *)
(* from the call before the last one is dropped, the list of the last call *)
(* becomes the previous one.  Only the names of cells change.              *)
AgeId(id) == IF id.kind = "found" THEN [id EXCEPT !.call = "prev"] ELSE id

YoungId(id) == IF id.kind = "found" THEN [id EXCEPT !.call = "last"] ELSE id

Age(h) ==
    LET kept == {id \in DOMAIN h : ~(id.kind = "found" /\ id.call = "prev")}
    IN  [id \in {AgeId(k) : k \in kept} |-> h[YoungId(id)]]

(* Lists that are still referenced: those of the tree, the default value   *)
(* of `found`, and the results the client holds.                           *)
Keep(h, rets) ==
    [id \in {k \in DOMAIN h : k.kind \in {"points", "default"} \/ k \in rets} |-> h[id]]

(* The client calls root.QueryRegion(region), `found` taking its default.  *)
(* It holds the results of at most two calls at a time.                    *)
Query ==
    /\ ~prevResult.held
    /\ \E r \in Regions :
      LET p == IF lastResult.held THEN [lastResult EXCEPT !.ret = AgeId(@)]
                                  ELSE NoResult
          s == QueryRegion([nodes |-> nodes, heap |-> Age(heap), calls |-> {},
                            collected |-> {}, ret |-> DefaultFound],
                           Root, r, DefaultFound)
      IN  /\ nodes' = s.nodes
          /\ heap' = Keep(s.heap, {p.ret, s.ret})
          /\ prevResult' = p
          /\ lastResult' = [region |-> r, ret |-> s.ret, held |-> TRUE]
          /\ last' = [Idle EXCEPT !.op = "query", !.region = r, !.calls = s.calls,
                                  !.collected = s.collected,
                                  !.ret = s.ret, !.preNodes = nodes,
                                  !.preHeap = TreeHeap(heap),
                                  !.preRet = heap[lastResult.ret]]
          /\ UNCHANGED inserted

(* The client drops the results it holds; it does so before it inserts.    *)
Discard ==
    /\ lastResult.held
    /\ heap' = Keep(heap, {})
    /\ prevResult' = NoResult
    /\ lastResult' = NoResult
    /\ last' = [Idle EXCEPT !.op = "discard"]
    /\ UNCHANGED <<nodes, inserted>>

Next == Insert \/ Query \/ Discard

Spec == Init /\ [][Next]_vars

(* ------------------------------------------------- Rectangle on its own *)
(* Coordinates around the edges of the rectangles below. *)
GeomCoords == {-Scale - 1, -Scale, -Scale + 1, 0, Scale - 1, Scale, Scale + 1}

(* Rectangle(0, 0, 1, 1) and a rectangle that is neither centred at the    *)
(* origin nor square.                                                      *)
GeomRects == {Box(0, 0, 1, 1), Rectangle(1, 0, Scale, Scale - 1)}

(* A rectangle and a point are constructed; there is no tree. *)
GeomInit ==
    /\ nodes = EmptyWorld.nodes
    /\ heap = EmptyWorld.heap
    /\ inserted = <<>>
    /\ prevResult = NoResult
    /\ lastResult = NoResult
    /\ \E r \in GeomRects : \E x \in GeomCoords : \E y \in GeomCoords :
          last = [Idle EXCEPT !.op = "input", !.region = r, !.point = Point(x, y)]

(* The client calls region.ContainsPoint(point). *)
Contains ==
    /\ last.op = "input"
    /\ last' = [last EXCEPT !.op = "contains",
                            !.contained = ContainsPoint(last.region, last.point)]
    /\ UNCHANGED <<nodes, heap, inserted, prevResult, lastResult>>

GeomNext == Contains

GeomSpec == GeomInit /\ [][GeomNext]_vars

(* ------------------------------------------------------------- measures *)
NodeIds == DOMAIN nodes

(* Halving a half-extent never loses a fraction in the model's units. *)
HalvingExact ==
    \A n \in NodeIds : nodes[n].divided =>
        nodes[n].boundary.w % 2 = 0 /\ nodes[n].boundary.h % 2 = 0

(* Number of occurrences of p in a sequence. *)
Occ(seq, p) == Cardinality({i \in DOMAIN seq : seq[i] = p})

(* The places of a tree where a point is stored: <<node, index>>. *)
Slots(ns, h) == UNION {{<<n, i>> : i \in DOMAIN h[ns[n].points]} : n \in DOMAIN ns}

SlotPoint(ns, h, sl) == h[ns[sl[1]].points][sl[2]]

(* Total number of stored points, and of stored occurrences of p. *)
StoredCount(ns, h) == Cardinality(Slots(ns, h))

StoredOcc(ns, h, p) == Cardinality({sl \in Slots(ns, h) : SlotPoint(ns, h, sl) = p})

(* p is strictly inside rectangle r: on no edge and not outside. *)
StrictlyInside(r, p) ==
    /\ r.x - r.w < p.x /\ p.x < r.x + r.w
    /\ r.y - r.h < p.y /\ p.y < r.y + r.h

InRegion(seq, region) == SelectSeq(seq, LAMBDA p : ContainsPoint(region, p))

RootPoints == heap[nodes[Root].points]

RootBoundary == nodes[Root].boundary

(* The list the last QueryRegion call returned. *)
Result == heap[last.ret]

(* ------------------------------------------------------------------ C1 *)
(* C1: QueryRegion on the root returns every stored point, of any node of  *)
(* the tree, that the region contains.                                     *)
C1_QueryReturnsEveryMatch ==
    last.op = "query" =>
        \A sl \in Slots(nodes, heap) :
            ContainsPoint(last.region, SlotPoint(nodes, heap, sl))
                => Occ(Result, SlotPoint(nodes, heap, sl)) >= 1

(* ------------------------------------------------------------------ C2 *)
(* C2: a top-level QueryRegion call starts from a fresh empty list: the    *)
(* list it returns is neither the default list nor the list of the call    *)
(* before, the default list stays empty, every returned point lies in the  *)
(* region of this call and is returned no more often than it is stored,    *)
(* two calls with disjoint regions share no point, and the list of the     *)
(* call before is left as it was.                                          *)
C2_FreshAccumulator ==
    last.op = "query" =>
        /\ last.ret # DefaultFound
        /\ heap[DefaultFound] = <<>>
        /\ \A i \in DOMAIN Result : ContainsPoint(last.region, Result[i])
        /\ \A p \in Points : Occ(Result, p) <= StoredOcc(nodes, heap, p)
        /\ prevResult.held =>
            /\ last.ret # prevResult.ret
            /\ heap[prevResult.ret] = last.preRet
            /\ ~IntersectsRegion(prevResult.region, last.region) =>
                 \A i \in DOMAIN Result : Occ(heap[prevResult.ret], Result[i]) = 0

C2_Witness ==
    /\ last.op = "query"
    /\ prevResult.held
    /\ ~IntersectsRegion(prevResult.region, last.region)
    /\ Result # <<>>
    /\ heap[prevResult.ret] # <<>>

(* ------------------------------------------------------------------ C3 *)
(* C3: on a tree whose root is not divided QueryRegion returns exactly the *)
(* points of root.points that the region contains, in stored order.        *)
C3_UndividedQueryExact ==
    (last.op = "query" /\ ~nodes[Root].divided) =>
        Result = InRegion(RootPoints, last.region)

C3_Witness ==
    /\ last.op = "query"
    /\ ~nodes[Root].divided
    /\ Result # <<>>
    /\ Len(Result) < Len(RootPoints)

(* ------------------------------------------------------------------ C4 *)
(* C4: InsertPoint of a point that is not strictly inside the root         *)
(* boundary changes no node and no points list, and creates no node.       *)
C4_OutsideInsertNoOp ==
    (last.op = "insert" /\ ~StrictlyInside(RootBoundary, last.point)) =>
        /\ nodes = last.preNodes
        /\ TreeHeap(heap) = last.preHeap
        /\ StoredCount(nodes, heap) = StoredCount(last.preNodes, last.preHeap)

C4_Witness ==
    /\ last.op = "insert"
    /\ ~StrictlyInside(RootBoundary, last.point)
    /\ last.point.x = RootBoundary.x + RootBoundary.w
    /\ nodes[Root].divided

(* ------------------------------------------------------------------ C5 *)
(* The inserted points that lie strictly inside the root boundary. *)
InsertedInside == SelectSeq(inserted, LAMBDA p : StrictlyInside(RootBoundary, p))

(* The four quadrants of the root as C5 states them. *)
QuadrantsOfRoot ==
    LET w == RootBoundary.w \div 2
        h == RootBoundary.h \div 2
    IN  /\ nodes[Root].northeast \in NodeIds
        /\ nodes[Root].northwest \in NodeIds
        /\ nodes[Root].southeast \in NodeIds
        /\ nodes[Root].southwest \in NodeIds
        /\ Cardinality({nodes[Root].northeast, nodes[Root].northwest,
                        nodes[Root].southeast, nodes[Root].southwest}) = 4
        /\ nodes[nodes[Root].northeast].boundary = Rectangle(w, h, w, h)
        /\ nodes[nodes[Root].northwest].boundary = Rectangle(-w, h, w, h)
        /\ nodes[nodes[Root].southeast].boundary = Rectangle(w, -h, w, h)
        /\ nodes[nodes[Root].southwest].boundary = Rectangle(-w, -h, w, h)
        /\ w = 5 * Scale /\ h = 5 * Scale

(* C5: while at most capacity points strictly inside the boundary were     *)
(* inserted the root is undivided and holds them all; the next such insert *)
(* divides it and creates exactly four children, the quadrants.            *)
C5_CapacityTrigger ==
    LET c == nodes[Root].capacity
    IN  /\ Len(InsertedInside) <= c =>
            /\ ~nodes[Root].divided
            /\ RootPoints = InsertedInside
            /\ NodeIds = {Root}
        /\ Len(InsertedInside) > c =>
            /\ nodes[Root].divided
            /\ RootPoints = SubSeq(InsertedInside, 1, c)
            /\ QuadrantsOfRoot
        /\ Len(InsertedInside) = c + 1 => Cardinality(NodeIds) = 5

C5_Witness ==
    /\ last.op = "insert"
    /\ Len(InsertedInside) = nodes[Root].capacity + 1
    /\ last.split = {Root}
    /\ nodes[Root].capacity = 2

(* ------------------------------------------------------------------ C6 *)
(* Every insert so far was of the same point, strictly inside the root. *)
OnlyDuplicates ==
    /\ inserted # <<>>
    /\ \A i \in DOMAIN inserted : inserted[i] = inserted[1]
    /\ StrictlyInside(RootBoundary, inserted[1])

(* p lies on a split line of node n: x == center x or y == center y. *)
OnSplitLine(ns, n, p) == p.x = ns[n].boundary.x \/ p.y = ns[n].boundary.y

(* p lies on a split line of a divided node whose boundary contains it. *)
MeetsSplitLine(p) ==
    \E n \in NodeIds :
        /\ nodes[n].divided
        /\ StrictlyInside(nodes[n].boundary, p)
        /\ OnSplitLine(nodes, n, p)

(* C6 as stated: the same point, strictly inside the root boundary,        *)
(* inserted k times is stored exactly k times.                             *)
C6_DuplicatesAllRetained ==
    OnlyDuplicates => StoredOcc(nodes, heap, inserted[1]) = Len(inserted)

(* C6 amended: the same point, strictly inside the root boundary, inserted *)
(* k times is stored exactly k times unless it lies on a split line of a   *)
(* divided node whose boundary contains it; then fewer than k are stored.  *)
C6_DuplicatesRetainedOffSplitLines ==
    OnlyDuplicates =>
        /\ ~MeetsSplitLine(inserted[1])
              => StoredOcc(nodes, heap, inserted[1]) = Len(inserted)
        /\ MeetsSplitLine(inserted[1])
              => StoredOcc(nodes, heap, inserted[1]) < Len(inserted)

C6_Witness ==
    /\ OnlyDuplicates
    /\ ~MeetsSplitLine(inserted[1])
    /\ Len(inserted) = MaxInserts
    /\ nodes[Root].divided
    /\ StoredOcc(nodes, heap, inserted[1]) > nodes[Root].capacity

(* ------------------------------------------------------------------ C7 *)
(* C7: QueryRegion leaves every node (boundary, capacity, points, divided, *)
(* children) and the contents of every points list as they were.           *)
C7_QueryDoesNotMutate ==
    last.op = "query" =>
        /\ nodes = last.preNodes
        /\ TreeHeap(heap) = last.preHeap

C7_Witness ==
    /\ last.op = "query"
    /\ nodes[Root].divided
    /\ Result # <<>>
    /\ Cardinality(last.calls) > 1

(* ------------------------------------------------------------------ C8 *)
(* C8: a QueryRegion call that follows one with the same region, with no   *)
(* InsertPoint in between, returns the points the first one returned, with *)
(* the same multiplicities.                                                *)
C8_RepeatedQueryEqual ==
    (last.op = "query" /\ prevResult.held /\ prevResult.region = last.region) =>
        /\ Len(Result) = Len(last.preRet)
        /\ \A p \in Points : Occ(Result, p) = Occ(last.preRet, p)

C8_Witness ==
    /\ last.op = "query"
    /\ prevResult.held
    /\ prevResult.region = last.region
    /\ nodes[Root].divided
    /\ Len(Result) > 1

(* ------------------------------------------------------------------ C9 *)
Children(ns, n) == {ns[n].northeast, ns[n].northwest, ns[n].southeast, ns[n].southwest}

(* The nodes that forwarded the point of the last InsertPoint call: their  *)
(* boundary contained it and they did not store it.                        *)
Forwarders == last.accepted \ last.appended

(* C9: a full node that forwards a point strictly inside its boundary is   *)
(* divided and calls its four children; exactly one of them accepts the    *)
(* point if it is on neither split line of the node, none if it is on one, *)
(* and then nothing is stored; the stored count grows by at most 1.        *)
C9_ForwardedToAtMostOneChild ==
    last.op = "insert" =>
        /\ \A n \in Forwarders :
            /\ nodes[n].divided
            /\ Children(nodes, n) \subseteq last.calls
            /\ ~OnSplitLine(nodes, n, last.point)
                  => Cardinality(Children(nodes, n) \cap last.accepted) = 1
            /\ OnSplitLine(nodes, n, last.point)
                  => /\ Children(nodes, n) \cap last.accepted = {}
                     /\ last.appended = {}
                     /\ StoredCount(nodes, heap) =
                            StoredCount(last.preNodes, last.preHeap)
        /\ StoredCount(nodes, heap) <= StoredCount(last.preNodes, last.preHeap) + 1
        /\ StoredCount(nodes, heap) >= StoredCount(last.preNodes, last.preHeap)

C9_Witness ==
    /\ last.op = "insert"
    /\ \E n \in Forwarders : \E m \in Forwarders :
          /\ m \in Children(nodes, n)
          /\ ~OnSplitLine(nodes, n, last.point)
          /\ OnSplitLine(nodes, m, last.point)
          /\ m \in last.split

(* ----------------------------------------------------------------- C10 *)
(* Depth of the deepest node among ids (the root has depth 0). *)
Deepest(ids) == CHOOSE d \in {Len(n) : n \in ids} : \A n \in ids : Len(n) <= d

(* C10: InsertPoint and QueryRegion return without exhausting the stack;   *)
(* InsertPoint runs on nodes at most one level below the depth the tree    *)
(* had, QueryRegion on nodes of the tree only.                             *)
C10_RecursionBounded ==
    /\ last.op = "insert" =>
          /\ ~last.error
          /\ Deepest(last.calls) <= Deepest(DOMAIN last.preNodes) + 1
    /\ last.op = "query" =>
          /\ last.calls \subseteq NodeIds
          /\ Deepest(last.calls) <= Deepest(NodeIds)

C10_Witness ==
    /\ last.op = "insert"
    /\ Deepest(DOMAIN last.preNodes) >= 1
    /\ Deepest(last.calls) = Deepest(DOMAIN last.preNodes) + 1

(* ----------------------------------------------------------------- C11 *)
(* Rectangles a and b overlap, shared edges and corners included. *)
Overlaps(a, b) ==
    /\ a.x - a.w <= b.x + b.w /\ b.x - b.w <= a.x + a.w
    /\ a.y - a.h <= b.y + b.h /\ b.y - b.h <= a.y + a.h

(* C11: a node whose boundary does not intersect the region of the query   *)
(* adds none of its points to the result and none of its children is       *)
(* visited; when the root does not intersect it the result is empty.       *)
C11_PrunedNodeContributesNothing ==
    last.op = "query" =>
        /\ \A n \in NodeIds : ~Overlaps(nodes[n].boundary, last.region) =>
              /\ n \notin last.collected
              /\ Children(nodes, n) \cap last.calls = {}
        /\ ~Overlaps(RootBoundary, last.region) =>
              /\ Result = <<>>
              /\ last.calls = {Root}

(* A visited, divided node off the region, and a root off the region. *)
C11_Witness ==
    /\ last.op = "query"
    /\ \E n \in last.calls :
          /\ ~Overlaps(nodes[n].boundary, last.region)
          /\ nodes[n].divided
          /\ \E c \in Children(nodes, n) : heap[nodes[c].points] # <<>>
    /\ Result # <<>>

(* ----------------------------------------------------------------- C12 *)
(* C12: ContainsPoint(p) is true exactly when p.x is strictly between      *)
(* centerX - halfWidth and centerX + halfWidth and p.y strictly between    *)
(* centerY - halfHeight and centerY + halfHeight; for center (0,0) half    *)
(* (1,1) the points (1,0), (0,1) and (-1,-1) are not contained.            *)
C12_ContainsPointStrict ==
    last.op = "contains" =>
        /\ last.contained <=>
              /\ last.region.x - last.region.w < last.point.x
              /\ last.point.x < last.region.x + last.region.w
              /\ last.region.y - last.region.h < last.point.y
              /\ last.point.y < last.region.y + last.region.h
        /\ (/\ last.region = Box(0, 0, 1, 1)
            /\ last.point \in {Src(1, 0), Src(0, 1), Src(-1, -1)}) => ~last.contained

C12_Witness ==
    /\ last.op = "contains"
    /\ last.region = Box(0, 0, 1, 1)
    /\ last.point = Src(-1, -1)
    /\ ~last.contained

(* ----------------------------------------------------------------- C13 *)
(* C13: every node holds at most capacity points directly. *)
C13_AtMostCapacity ==
    \A n \in NodeIds : Len(heap[nodes[n].points]) <= nodes[n].capacity

(* A full divided node with a full child. *)
C13_Witness ==
    \E n \in NodeIds :
        /\ nodes[n].divided
        /\ Len(heap[nodes[n].points]) = nodes[n].capacity
        /\ nodes[n].capacity = 2
        /\ \E c \in Children(nodes, n) : heap[nodes[c].points] # <<>>

(* ----------------------------------------------------------------- C14 *)
(* Left, right, bottom and top edge of a rectangle. *)
Edges(r) == <<r.x - r.w, r.x + r.w, r.y - r.h, r.y + r.h>>

(* The children of n are the four quadrants of its boundary b: half the    *)
(* half-extents, centers at (x +- w/2, y +- h/2), edges on the edges and   *)
(* the center lines of b, so they cover b and share edges only.            *)
FourQuadrants(n) ==
    LET b  == nodes[n].boundary
        ne == nodes[nodes[n].northeast].boundary
        nw == nodes[nodes[n].northwest].boundary
        se == nodes[nodes[n].southeast].boundary
        sw == nodes[nodes[n].southwest].boundary
    IN  /\ \A c \in {ne, nw, se, sw} : 2 * c.w = b.w /\ 2 * c.h = b.h
        /\ 2 * (ne.x - b.x) = b.w  /\ 2 * (ne.y - b.y) = b.h
        /\ 2 * (nw.x - b.x) = -b.w /\ 2 * (nw.y - b.y) = b.h
        /\ 2 * (se.x - b.x) = b.w  /\ 2 * (se.y - b.y) = -b.h
        /\ 2 * (sw.x - b.x) = -b.w /\ 2 * (sw.y - b.y) = -b.h
        /\ Edges(ne) = <<b.x, b.x + b.w, b.y, b.y + b.h>>
        /\ Edges(nw) = <<b.x - b.w, b.x, b.y, b.y + b.h>>
        /\ Edges(se) = <<b.x, b.x + b.w, b.y - b.h, b.y>>
        /\ Edges(sw) = <<b.x - b.w, b.x, b.y - b.h, b.y>>

(* C14: a node is either not divided and has no child, or divided with     *)
(* exactly four children that are the quadrants of its boundary and have   *)
(* its capacity.                                                           *)
C14_ZeroOrFourChildren ==
    \A n \in NodeIds :
        \/ /\ ~nodes[n].divided
           /\ Children(nodes, n) = {NoNode}
           /\ \A m \in NodeIds : m = Root \/ SubSeq(m, 1, Len(m) - 1) # n
        \/ /\ nodes[n].divided
           /\ Children(nodes, n) \subseteq NodeIds
           /\ Cardinality(Children(nodes, n)) = 4
           /\ \A c \in Children(nodes, n) : nodes[c].capacity = nodes[n].capacity
           /\ FourQuadrants(n)

C14_Witness ==
    /\ nodes[Root].divided
    /\ \E n \in NodeIds : n # Root /\ nodes[n].divided
    /\ \E n \in NodeIds : n # Root /\ ~nodes[n].divided

(* ----------------------------------------------------------------- C15 *)
(* a is a prefix of b. *)
IsPrefix(a, b) == Len(a) <= Len(b) /\ SubSeq(b, 1, Len(a)) = a

(* One step of the program as C15 sees it: every node stays; a divided     *)
(* node stays divided, keeps its four children and is not subdivided       *)
(* again; a child is not replaced (it keeps boundary, capacity, divided    *)
(* state and points); a node is subdivided in this step exactly when       *)
(* InsertPoint reaches it undivided, holding capacity points, with a point *)
(* strictly inside its boundary.                                           *)
OneWayStep ==
    /\ \A n \in DOMAIN nodes :
          /\ n \in DOMAIN nodes'
          /\ nodes'[n].boundary = nodes[n].boundary
          /\ nodes'[n].capacity = nodes[n].capacity
          /\ nodes'[n].points = nodes[n].points
          /\ IsPrefix(heap[nodes[n].points], heap'[nodes'[n].points])
          /\ nodes[n].divided =>
                /\ nodes'[n].divided
                /\ nodes'[n].northeast = nodes[n].northeast
                /\ nodes'[n].northwest = nodes[n].northwest
                /\ nodes'[n].southeast = nodes[n].southeast
                /\ nodes'[n].southwest = nodes[n].southwest
                /\ n \notin last'.split
          /\ (~nodes[n].divided /\ nodes'[n].divided) <=>
                /\ last'.op = "insert"
                /\ n \in last'.calls
                /\ ~nodes[n].divided
                /\ StrictlyInside(nodes[n].boundary, last'.point)
                /\ Len(heap[nodes[n].points]) = nodes[n].capacity
    /\ last'.split = {n \in DOMAIN nodes : ~nodes[n].divided /\ nodes'[n].divided}

(* C15: Leaf -> Divided happens at most once per node, only at an insert   *)
(* that reaches the full node with a point strictly inside it, and is      *)
(* never undone; the four children are never replaced or removed.          *)
C15_SubdivideOnceOneWay == [][OneWayStep]_vars

(* An insert passed through a node that was divided before and subdivided  *)
(* a node below it.                                                        *)
C15_Witness ==
    /\ last.op = "insert"
    /\ \E n \in DOMAIN last.preNodes :
          /\ last.preNodes[n].divided
          /\ n \in last.accepted
          /\ \E c \in Children(nodes, n) : c \in last.split

(* ----------------------------------------------------------------- C16 *)
(* One step of the program as C16 sees it: the points of a divided node    *)
(* do not change and are capacity many; the points of an undivided node    *)
(* stay or get the inserted point appended at the end; subdividing a node  *)
(* leaves its points where they are; the nodes created in the step hold    *)
(* nothing but, at most one of them, the inserted point.                   *)
FrozenStep ==
    /\ \A n \in DOMAIN nodes :
          LET old == heap[nodes[n].points]
              new == heap'[nodes'[n].points]
          IN  /\ nodes[n].divided => new = old /\ Len(old) = nodes[n].capacity
              /\ ~nodes[n].divided =>
                    \/ new = old
                    \/ /\ last'.op = "insert"
                       /\ new = Append(old, last'.point)
                       /\ ~nodes'[n].divided
              /\ nodes'[n].divided => new = old /\ Len(new) = nodes[n].capacity
    /\ \A n \in DOMAIN nodes' \ DOMAIN nodes :
          heap'[nodes'[n].points] \in {<<>>, <<last'.point>>}
    /\ Cardinality({n \in DOMAIN nodes' \ DOMAIN nodes :
                       heap'[nodes'[n].points] # <<>>}) <= 1

(* C16: InsertPoint appends to a node's points only while the node is not  *)
(* divided and only at the end; once the node is divided its points stay   *)
(* the capacity points it held, and none of them is put into the new       *)
(* children, which start empty.                                            *)
C16_PointsFrozenOnceDivided == [][FrozenStep]_vars

(* An insert went through a divided node holding two points and was stored *)
(* in a child created by the same call.                                    *)
C16_Witness ==
    /\ last.op = "insert"
    /\ \E n \in last.split :
          /\ Len(heap[nodes[n].points]) = 2
          /\ heap[nodes[n].points][1] # heap[nodes[n].points][2]
          /\ \E c \in Children(nodes, n) : heap[nodes[c].points] = <<last.point>>

(* ----------------------------------------------------------------- C17 *)
(* C17: one InsertPoint call on the root subdivides at most one node and   *)
(* adds no node or exactly four; a node created by the call is not         *)
(* subdivided by it.                                                       *)
C17_AtMostOneSubdivision ==
    last.op = "insert" =>
        /\ Cardinality(last.split) <= 1
        /\ last.split \subseteq DOMAIN last.preNodes
        /\ Cardinality(NodeIds \ DOMAIN last.preNodes) = 4 * Cardinality(last.split)
        /\ \A n \in NodeIds \ DOMAIN last.preNodes : ~nodes[n].divided

(* The call went down two levels and subdivided the node it ended in. *)
C17_Witness ==
    /\ last.op = "insert"
    /\ \E n \in last.split : Len(n) >= 1
    /\ Cardinality(last.appended) = 1

(* ----------------------------------------------------------------- C18 *)
(* The ancestors of node n, n included: the prefixes of its path. *)
UpToRoot(n) == {SubSeq(n, 1, k) : k \in 0..Len(n)}

(* C18: every stored point lies strictly inside the boundary of the node   *)
(* that stores it and of every ancestor of that node.                      *)
C18_StoredPointsInsideBoundary ==
    \A sl \in Slots(nodes, heap) :
        \A a \in UpToRoot(sl[1]) :
            /\ a \in NodeIds
            /\ StrictlyInside(nodes[a].boundary, SlotPoint(nodes, heap, sl))

(* Points are stored at the root, in a child and in a grandchild. *)
C18_Witness ==
    \E sl \in Slots(nodes, heap) :
        /\ Len(sl[1]) = 2
        /\ \A a \in UpToRoot(sl[1]) : heap[nodes[a].points] # <<>>

(* ----------------------------------------------------------------- C19 *)
(* The stored occurrences of p that region contains. *)
StoredMatches(p, region) == IF ContainsPoint(region, p) THEN StoredOcc(nodes, heap, p) ELSE 0

(* C19: every point QueryRegion returns is stored in the tree and is       *)
(* contained in the region, and it is returned at most as often as it is   *)
(* stored.                                                                 *)
C19_QuerySound ==
    last.op = "query" =>
        \A i \in DOMAIN Result :
            /\ StoredOcc(nodes, heap, Result[i]) >= 1
            /\ ContainsPoint(last.region, Result[i])
            /\ Occ(Result, Result[i]) <= StoredMatches(Result[i], last.region)

(* The result has points of the root and of a child, one of them twice. *)
C19_Witness ==
    /\ last.op = "query"
    /\ Cardinality(last.collected) > 1
    /\ Len(Result) > Len(RootPoints)
    /\ RootPoints # <<>>
    /\ \E i \in DOMAIN Result : Occ(Result, Result[i]) = 2
    /\ \E p \in Points : StoredOcc(nodes, heap, p) >= 1 /\ ~ContainsPoint(last.region, p)

(* ----------------------------------------------------------------- C20 *)
(* The nodes of the subtree of n, n included. *)
Subtree(n) == {m \in NodeIds : n \in UpToRoot(m)}

(* C20: when the boundary of a node does not intersect a region, the       *)
(* region contains no point stored in the node or below it.                *)
C20_PruningHidesNoMatch ==
    \A r \in Regions : \A n \in NodeIds :
        ~IntersectsRegion(nodes[n].boundary, r) =>
            \A m \in Subtree(n) : \A i \in DOMAIN heap[nodes[m].points] :
                ~ContainsPoint(r, heap[nodes[m].points][i])

(* A divided node off a region that holds points itself and in a child,    *)
(* while the region contains a point stored elsewhere in the tree.         *)
C20_Witness ==
    \E r \in Regions : \E n \in NodeIds :
        /\ ~IntersectsRegion(nodes[n].boundary, r)
        /\ nodes[n].divided
        /\ heap[nodes[n].points] # <<>>
        /\ \E m \in Subtree(n) : m # n /\ heap[nodes[m].points] # <<>>
        /\ \E p \in Points : ContainsPoint(r, p) /\ StoredOcc(nodes, heap, p) >= 1
====
